---------------------------- MODULE Spec2Model ----------------------------
(***************************************************************************)
(* Synchronous inference serving of ml_pipeline_v3/inference_container:    *)
(* the /predict endpoint with its concurrency gate and queue metrics       *)
(* (api_server.py), the executor Inferencer.perform_inference with its     *)
(* dedup set and log sink (inferencer.py), the model loaders and the       *)
(* startup / prewarm task.                                                 *)
(*                                                                         *)
(* Granularity.  /predict is a coroutine on one event loop: the code       *)
(* between two awaits is one action.  perform_inference and the loaders    *)
(* run on pool threads (asyncio.to_thread) and are cut at the statements   *)
(* that read or write the shared Inferencer attributes.                    *)
(*                                                                         *)
(* Abstractions.  A predictor or scaler object is named by the MLflow run  *)
(* it was loaded from.  A table is its content identity and its row count. *)
(* The predictor is deterministic: a prediction table is determined by     *)
(* the predictor, the input table and the horizon.                         *)
(***************************************************************************)
EXTENDS Integers, Sequences, FiniteSets, TLC

\* ------------------------------------------------------------- bounds
\* Number of /predict requests (K of the spec); K > gate capacity.
NumReqs == 3
\* Horizon carried by a request that overrides inference_length.
HorizonOverride == 2
\* Loads (load_model, /reload_latest) the environment may start.
MaxLoads == 1

\* ------------------------------------------------- program constants
\* api_server.py:102  gate capacity N
PREDICT_MAX_CONCURRENCY == 2
\* inferencer.py:978  max_retries of the log write
max_retries == 3
\* inferencer.py:30   SAMPLE_IDX default
SAMPLE_IDX == 0
\* inferencer.py:31   INFERENCE_LENGTH default
INFERENCE_LENGTH == 1
\* shared/config.py:41  Kafka mode is off by default (KFP mode)
USE_KAFKA == FALSE
\* inferencer.py:838  INFERENCE_DISABLE_LOG_UPLOAD default "0"
INFERENCE_DISABLE_LOG_UPLOAD == FALSE
\* inferencer.py:934  rows of the prediction table that are hashed
HashRows == 3

None == "None"
Reqs == 1..NumReqs
\* perform_inference calls: one per request, and call 0 for the prewarm
PrewarmCall == 0
Calls == {PrewarmCall} \cup Reqs

Min(a, b) == IF a <= b THEN a ELSE b
Max(a, b) == IF a >= b THEN a ELSE b

\* ------------------------------------------------- MLflow runs (external)
Runs == {"R1", "R2"}
\* Parameters logged with each run: R1 is a sequence model with a scaler
\* artifact, R2 a seasonal model without one.
RunParams(run) ==
    IF run = "R1"
    THEN [cls |-> "pytorch", in |-> 2, out |-> 1, scaler |-> TRUE]
    ELSE [cls |-> "prophet", in |-> 0, out |-> 0, scaler |-> FALSE]

\* ------------------------------------------------- tables and payloads
NoTable == [id |-> None, rows |-> 0]
\* The reference table the runtime caches with set_df.
CachedTable == [id |-> "cached", rows |-> 4]

\* A request payload, by the properties the preparation chain looks at.
\*   data: the 'data' mapping is present and non-empty; rows: its rows;
\*   tscol: a timestamp column resolves; tsok: every timestamp parses;
\*   uniq: number of distinct timestamps; numeric: all columns numeric;
\*   cols: the base feature columns of the cached table are all present.
NoData ==
    [id |-> None, data |-> FALSE, rows |-> 0, tscol |-> FALSE, tsok |-> FALSE,
     uniq |-> 0, numeric |-> FALSE, cols |-> FALSE]
GoodPayload ==
    [id |-> "A", data |-> TRUE, rows |-> 4, tscol |-> TRUE, tsok |-> TRUE,
     uniq |-> 4, numeric |-> TRUE, cols |-> TRUE]
ShortPayload ==
    [id |-> "B", data |-> TRUE, rows |-> 2, tscol |-> TRUE, tsok |-> TRUE,
     uniq |-> 2, numeric |-> TRUE, cols |-> TRUE]
DupTsPayload ==
    [id |-> "C", data |-> TRUE, rows |-> 3, tscol |-> TRUE, tsok |-> TRUE,
     uniq |-> 1, numeric |-> TRUE, cols |-> TRUE]
DupPairPayload ==
    [id |-> "E", data |-> TRUE, rows |-> 2, tscol |-> TRUE, tsok |-> TRUE,
     uniq |-> 1, numeric |-> FALSE, cols |-> FALSE]
NoColsPayload ==
    [id |-> "D", data |-> TRUE, rows |-> 4, tscol |-> TRUE, tsok |-> TRUE,
     uniq |-> 4, numeric |-> TRUE, cols |-> FALSE]
Payloads ==
    {NoData, GoodPayload, ShortPayload, DupTsPayload, DupPairPayload, NoColsPayload}
HorizonSources == {"none", "query", "body"}

\* _expected_feature_columns: the base columns of the cached table, when the
\* inferencer is reachable and holds a non-empty table.
RequiredColumns(svc, cached) == svc /\ cached # NoTable

\* df_tmp.sort_index() and strip_timezones keep every row
\* (api_server.py:530-533).
RowsAfterNormalization(p) == p.rows

\* A preparation that drops repeated timestamps instead of rejecting them.
PrepareCollapsing(p, svc, cached) ==
    IF ~p.data THEN "EmptyPayload"
    ELSE IF p.rows = 0 THEN "NoRows"
    ELSE IF ~p.tscol THEN "NoTimestampColumn"
    ELSE IF ~p.tsok THEN "InvalidTimestamp"
    ELSE IF ~p.numeric THEN "NonNumericColumns"
    ELSE IF RequiredColumns(svc, cached) /\ ~p.cols THEN "MissingFeatureColumns"
    ELSE "ok"
\* _prepare_dataframe_for_inference: "ok" or the detail of the first check
\* that fails, in the order of the code.
PrepareDataframe(p, svc, cached) ==
    IF ~p.data THEN "EmptyPayload"
    ELSE IF p.rows = 0 THEN "NoRows"
    ELSE IF ~p.tscol THEN "NoTimestampColumn"
    ELSE IF ~p.tsok THEN "InvalidTimestamp"
    ELSE IF RowsAfterNormalization(p) = 0 THEN "EmptyAfterNormalization"
    ELSE IF p.uniq = 1 /\ p.rows > 1 THEN "DuplicateTimestamps"
    ELSE IF ~p.numeric THEN "NonNumericColumns"
    ELSE IF RequiredColumns(svc, cached) /\ ~p.cols THEN "MissingFeatureColumns"
    ELSE "ok"

\* The table a prepared payload becomes.
PreparedTable(p) == [id |-> p.id, rows |-> p.rows]

VARIABLES
    \* --- Inferencer attributes (inferencer.py:60-88)
    current_model,            \* predictor, by run; None
    current_scaler,           \* scaler, by run; None
    current_run_id,           \* run identifier; None
    input_seq_len,
    output_seq_len,
    model_class,              \* "", "pytorch", "prophet", "statsforecast"
    scaler_checked,           \* _scaler_checked_run_ids
    df,                       \* cached reference table; NoTable
    active_jobs,              \* _active_jobs
    emitted,                  \* _emitted_prediction_keys
    last_prediction,          \* last_prediction_response
    last_prewarm_run_id,      \* _last_prewarm_run_id
    \* --- log sink (MinIO object behind get_file / post_file)
    logObject,                \* the lines of results.jsonl
    config,                   \* process configuration, sink and clients
    \* --- api_server module state
    sem,                      \* free slots of _CONCURRENCY_SEMAPHORE
    queue_metrics,
    startup_ready_ms,         \* module-level _startup_ready_ms is set
    \* --- control state
    req,                      \* /predict coroutines
    out,                      \* the HTTP response sent last
    call,                     \* perform_inference calls
    loader,                   \* a load_model / fallback load in progress
    budget,                   \* what the environment may still start
    startup,                  \* the _background_startup task
    lastSuccess,              \* the latest response returned with SUCCESS
    log_writes,               \* per dedup key, the calls that began a log write
    pure                      \* a function applied on its own: argument, result

inferencerVars ==
    <<current_model, current_scaler, current_run_id, input_seq_len,
      output_seq_len, model_class, scaler_checked>>
vars ==
    <<current_model, current_scaler, current_run_id, input_seq_len,
      output_seq_len, model_class, scaler_checked, df, active_jobs, emitted,
      last_prediction, last_prewarm_run_id, logObject, config, sem,
      queue_metrics, startup_ready_ms, req, out, call, loader, budget,
      startup, lastSuccess, log_writes, pure>>


\* ------------------------------------------------------------- values
NoPred == [m |-> None, t |-> None, h |-> 0]
\* A response object / a stored last response.  kind tells the /predict
\* response payload (api_server.py:1038-1045) from the JSONL log record
\* (inferencer.py:960-969), whose fields differ.
NoResp ==
    [kind |-> None, status |-> None, cached |-> FALSE, req_id |-> 0,
     run_id |-> None, predictions |-> NoPred]
\* What a response holds apart from status, cached and req_id.
Content(resp) ==
    [kind |-> resp.kind, run_id |-> resp.run_id, predictions |-> resp.predictions]

InitMetrics ==
    [enqueued |-> 0, active |-> 0, completed |-> 0, served_cached |-> 0,
     wait_samples |-> 0, exec_samples |-> 0, prep_samples |-> 0,
     last_prep_ms |-> 0, max_prep_ms |-> 0, last_wait_ms |-> 0,
     max_wait_ms |-> 0, last_duration_ms |-> 0, max_exec_ms |-> 0,
     error_500_total |-> 0, last_error_type |-> None]
InitReq == [pc |-> "new", svc |-> TRUE]
\* An HTTP response: the request it answers, the status code, the detail
\* of an error or the status of a success, and the body of a success.
NoOut == [req_id |-> 0, code |-> 0, detail |-> None, resp |-> NoResp]
Response(r, code, detail, resp) ==
    [req_id |-> r, code |-> code, detail |-> detail, resp |-> resp]
InitCall ==
    [pc |-> "idle", table |-> NoTable, h |-> 0, result |-> None,
     event |-> None, mchk |-> None, m |-> None, in |-> 0, out |-> 0, cls |-> "",
     sc |-> None, run |-> None, pred |-> NoPred, ncalls |-> 0, attempt |-> 0,
     fetched |-> <<>>, key |-> <<>>, wrote |-> FALSE]
\* No function is being applied on its own.
NoPure == [done |-> FALSE, arg |-> None, ret |-> None]
InitLoader == [pc |-> "idle", kind |-> None, run |-> None, by |-> None, ok |-> FALSE]
InitStartup == [pc |-> "start", fallbacks |-> 0, local_ready |-> FALSE]

\* The state after import of api_server and construction of the Inferencer
\* (inferencer.py:60-88, api_server.py:173-208).
InitState ==
    /\ current_model = None
    /\ current_scaler = None
    /\ current_run_id = None
    /\ input_seq_len = 0
    /\ output_seq_len = 0
    /\ model_class = ""
    /\ scaler_checked = {}
    /\ df = NoTable
    /\ active_jobs = 0
    /\ emitted = {}
    /\ last_prediction = NoResp
    /\ last_prewarm_run_id = "unset"
    /\ logObject = <<>>
    /\ sem = PREDICT_MAX_CONCURRENCY
    /\ queue_metrics = InitMetrics
    /\ startup_ready_ms = FALSE
    /\ req = [r \in Reqs |-> InitReq]
    /\ out = NoOut
    /\ call = [c \in Calls |-> InitCall]
    /\ loader = InitLoader
    /\ startup = InitStartup
    /\ lastSuccess = NoResp
    /\ log_writes = <<>>
InitBase ==
    /\ InitState
    /\ pure = NoPure

\* ------------------------------------------------------ /predict
\* Inferencer.get_last_prediction_copy / set_last_prediction
get_last_prediction_copy == last_prediction
set_last_prediction(payload) == payload

\* predict, the direct cache short-circuit (api_server.py:826-845): the
\* condition under which the stored last response is looked up.
CacheLookup(cache, p, hs) == cache /\ ~p.data /\ hs = "none"

\* The cached response (api_server.py:835-838).
CachedResponse(last, r) ==
    [last EXCEPT !.status = "SUCCESS_CACHED", !.cached = TRUE, !.req_id = r]

\* A cached response that is also counted as enqueued.
MetricsServedCachedEnqueued(qm) ==
    [qm EXCEPT !.served_cached = @ + 1, !.enqueued = @ + 1]
\* queue_metrics after a cached response is served (api_server.py:839-841).
MetricsServedCached(qm) == [qm EXCEPT !.served_cached = @ + 1]

\* effective_inference_length (api_server.py:868-871)
EffectiveLength(hs) == IF hs = "none" THEN 1 ELSE HorizonOverride

\* Preparation of the table /predict will run on (api_server.py:857-888):
\* the detail of the client error, or "ok".
Preparation(p, svc, cached) ==
    IF p.data THEN PrepareDataframe(p, svc, cached)
    ELSE IF ~svc THEN "NoCachedDataframe"
    ELSE IF cached = NoTable THEN "NoCachedDataframe"
    ELSE "ok"

\* A rejection counted as enqueued: the counters moved above the checks.
MetricsRejectedEnqueued(qm) == [qm EXCEPT !.enqueued = @ + 1]
\* queue_metrics at a request rejected in preparation: the HTTPException
\* leaves predict before any counter is touched (api_server.py:861-888).
MetricsRejected(qm) == qm

\* queue_metrics after preparation passed (api_server.py:892-900).
MetricsEnqueued(qm) ==
    [qm EXCEPT !.prep_samples = @ + 1, !.enqueued = @ + 1]

\* The measured preparation time is recorded (api_server.py:895-897).
PrepTimed(qm, ms) ==
    [qm EXCEPT !.last_prep_ms = ms, !.max_prep_ms = Max(@, ms)]

\* A wait time recorded without its maximum.
WaitTimedNoMax(qm, ms) == [qm EXCEPT !.last_wait_ms = ms]
\* The measured wait for the slot is recorded (api_server.py:910-913).
WaitTimed(qm, ms) ==
    [qm EXCEPT !.last_wait_ms = ms, !.max_wait_ms = Max(@, ms)]

\* The duration of a successful execution is recorded
\* (api_server.py:962-971).
ExecTimed(qm, result, ms) ==
    IF result = "df"
    THEN [qm EXCEPT !.last_duration_ms = ms, !.max_exec_ms = Max(@, ms)]
    ELSE qm

\* queue_metrics after the slot is acquired (api_server.py:906-914).
MetricsAcquired(qm) ==
    [qm EXCEPT !.active = @ + 1, !.wait_samples = @ + 1]

\* A finally block that forgets the active metric.
MetricsFinallyKeepsActive(qm) == qm
\* A release on the success path only.
SemReleasedOnSuccess(s, code) == IF code = 200 THEN s + 1 ELSE s
\* A finally block that keeps the slot.
SemKept(s, code) == s
\* The finally block of predict (api_server.py:995-999).
MetricsFinally(qm) == [qm EXCEPT !.active = Max(0, @ - 1)]
SemReleased(s, code) == s + 1

\* Arrival of request r with payload p, horizon source hs and svc, the
\* success of _get_inferencer(), up to 'await semaphore.acquire()'
\* (api_server.py:806-904).
ArriveWith(r, p, hs, svc) ==
    /\ req[r].pc = "new"
    /\ budget.arrivals > 0
    /\ budget' = [budget EXCEPT !.arrivals = @ - 1]
    /\ \E ms \in config.durations :
       LET last == get_last_prediction_copy
           prep == Preparation(p, svc, df)
       IN  IF CacheLookup(config.cache, p, hs) /\ svc /\ last # NoResp
           THEN /\ req' = [req EXCEPT ![r] = [@ EXCEPT !.pc = "done"]]
                /\ out' = Response(r, 200, "SUCCESS_CACHED",
                                   CachedResponse(last, r))
                /\ queue_metrics' = MetricsServedCached(queue_metrics)
                /\ UNCHANGED call
           ELSE IF prep # "ok"
           THEN /\ req' = [req EXCEPT ![r] = [@ EXCEPT !.pc = "done"]]
                /\ out' = Response(r, 400, prep, NoResp)
                /\ queue_metrics' = MetricsRejected(queue_metrics)
                /\ UNCHANGED call
           ELSE /\ req' = [req EXCEPT ![r] = [@ EXCEPT !.pc = "gate", !.svc = svc]]
                /\ queue_metrics' = MetricsEnqueued(PrepTimed(queue_metrics, ms))
                /\ UNCHANGED out
                /\ call' = [call EXCEPT ![r] =
                       [@ EXCEPT !.table = IF p.data THEN PreparedTable(p) ELSE df,
                                 !.h = EffectiveLength(hs)]]
    /\ UNCHANGED <<inferencerVars, df, active_jobs, emitted, last_prediction,
                   last_prewarm_run_id, logObject, config, sem,
                   startup_ready_ms, loader, startup, lastSuccess, log_writes, pure>>

\* The clients of a scenario send the payloads and horizon sources of its
\* configuration.  Requests are identical, so they arrive in the order of
\* their numbers.
Arrive(r) ==
    /\ \A q \in Reqs : q < r => req[q].pc # "new"
    /\ \E p \in config.payloads, hs \in config.horizons, svc \in BOOLEAN :
        ArriveWith(r, p, hs, svc)

\* 'await semaphore.acquire()' returns (api_server.py:904-914).
Acquire(r) ==
    /\ req[r].pc = "gate"
    /\ sem > 0
    /\ sem' = sem - 1
    /\ \E ms \in config.durations :
        queue_metrics' = WaitTimed(MetricsAcquired(queue_metrics), ms)
    /\ req' = [req EXCEPT ![r] = [@ EXCEPT !.pc = "held"]]
    /\ UNCHANGED out
    /\ UNCHANGED <<inferencerVars, df, active_jobs, emitted, last_prediction,
                   last_prewarm_run_id, logObject, config, startup_ready_ms,
                   call, loader, budget, startup, lastSuccess, log_writes, pure>>

\* After the simulated delay: the inferencer is unavailable (503), or
\* perform_inference is handed to the thread pool (api_server.py:926-949).
StartExec(r) ==
    /\ req[r].pc = "held"
    /\ IF ~req[r].svc
       THEN /\ queue_metrics' = MetricsFinally(
                    [queue_metrics EXCEPT !.error_500_total = @ + 1,
                                          !.last_error_type = "InferencerUnavailable"])
            /\ sem' = SemReleased(sem, 503)
            /\ req' = [req EXCEPT ![r] = [@ EXCEPT !.pc = "done", !.svc = TRUE]]
            /\ out' = Response(r, 503, "Inference service not ready", NoResp)
            /\ UNCHANGED call
       ELSE /\ call' = [call EXCEPT ![r] = [@ EXCEPT !.pc = "enter"]]
            /\ req' = [req EXCEPT ![r] = [@ EXCEPT !.pc = "exec"]]
            /\ UNCHANGED <<queue_metrics, sem, out>>
    /\ UNCHANGED <<inferencerVars, df, active_jobs, emitted, last_prediction,
                   last_prewarm_run_id, logObject, config, startup_ready_ms,
                   loader, budget, startup, lastSuccess, log_writes, pure>>

\* A mapping that answers 500 to every failure.
ResultCodeAllServer(result) ==
    IF result = "df" THEN 200
    ELSE 500
\* The HTTP status predict maps the executor's result to
\* (api_server.py:950-994).
ResultCode(result) ==
    IF result = "df" THEN 200
    ELSE IF result = "KeyError" THEN 400
    ELSE 500
ResultDetail(result) ==
    IF result = "df" THEN "SUCCESS"
    ELSE IF result = "KeyError" THEN "Missing required columns for inference"
    ELSE IF result = None THEN "Inference skipped (see server logs)"
    ELSE "Inference execution failed"

\* A result mapping that counts every returned call as completed.
MetricsCompletedAlways(qm, result) ==
    [qm EXCEPT !.completed = @ + 1, !.exec_samples = @ + 1,
               !.last_error_type = IF result = "df" THEN None ELSE "Exception"]
\* queue_metrics after the executor's result is known (api_server.py:950-994).
MetricsResult(qm, result) ==
    IF result = "df"
    THEN [qm EXCEPT !.completed = @ + 1, !.exec_samples = @ + 1,
                    !.last_error_type = None]
    ELSE IF result = "KeyError"
    THEN [qm EXCEPT !.last_error_type = "MissingColumns"]
    ELSE IF result = None
    THEN [qm EXCEPT !.error_500_total = @ + 1,
                    !.last_error_type = "InferenceSkipped"]
    ELSE [qm EXCEPT !.error_500_total = @ + 1, !.last_error_type = "Exception"]

\* response_payload (api_server.py:1037-1045)
ResponsePayload(r, run_id, pred) ==
    [kind |-> "response", status |-> "SUCCESS", cached |-> FALSE, req_id |-> r,
     run_id |-> run_id, predictions |-> pred]

\* 'await asyncio.to_thread(perform_inference)' returns: the result is
\* mapped, the finally block releases the slot, and on success the response
\* is built and stored as the last response (api_server.py:950-1069).
ExecReturn(r) ==
    /\ req[r].pc = "exec"
    /\ call[r].pc = "ret"
    /\ LET result == call[r].result
           code == ResultCode(result)
           payload == ResponsePayload(r, current_run_id, call[r].pred)
       IN  /\ \E ms \in config.durations :
                queue_metrics' = MetricsFinally(
                    ExecTimed(MetricsResult(queue_metrics, result), result, ms))
           /\ sem' = SemReleased(sem, code)
           /\ req' = [req EXCEPT ![r] = [@ EXCEPT !.pc = "done"]]
           /\ out' = Response(r, code, ResultDetail(result),
                              IF code = 200 THEN payload ELSE NoResp)
           /\ last_prediction' =
                   IF code = 200 THEN set_last_prediction(payload) ELSE last_prediction
           /\ lastSuccess' = IF code = 200 THEN payload ELSE lastSuccess
    /\ call' = [call EXCEPT ![r] = InitCall]
    /\ UNCHANGED <<inferencerVars, df, active_jobs, emitted, last_prewarm_run_id,
                   logObject, config, startup_ready_ms, loader, budget, startup,
                   log_writes, pure>>

\* ------------------------------------------------ perform_inference
\* A call c records what it read from the shared Inferencer attributes at
\* the statement that read it: mchk (the readiness check), in/out, cls,
\* m (the predictor whose predict ran), sc (the scaler), run (the run id).

\* A call between _mark_job_started and _mark_job_finished.
Running(c) ==
    call[c].pc \in {"precheck", "branch", "scale", "save", "fetch", "post",
                    "publish", "finally"}
\* A call handed to a thread and not yet returned.
InFlight(c) == call[c].pc \notin {"idle", "ret"}

\* A finish that leaves the counter as it is.
mark_job_kept(jobs) == jobs
\* _mark_job_started / _mark_job_finished (inferencer.py:343-349)
mark_job_started(jobs) == jobs + 1
mark_job_finished(jobs) == Max(0, jobs - 1)

\* Outcomes of a call to the log sink: it may fail only when the
\* environment's sink is unreliable.
SinkOutcomes == IF config.sink_flaky THEN BOOLEAN ELSE {TRUE}

\* Entry: the table is resolved, and a missing predictor returns None
\* before the job counter is touched (inferencer.py:372-396).
PI_Enter(c) ==
    /\ call[c].pc = "enter"
    /\ IF call[c].table = NoTable /\ df = NoTable
       THEN /\ call' = [call EXCEPT ![c] =
                    [@ EXCEPT !.pc = "ret", !.result = None, !.event = "no_data"]]
            /\ UNCHANGED active_jobs
       ELSE IF current_model = None
       THEN /\ call' = [call EXCEPT ![c] =
                    [@ EXCEPT !.pc = "ret", !.result = None,
                              !.event = "no_model_loaded"]]
            /\ UNCHANGED active_jobs
       ELSE /\ call' = [call EXCEPT ![c] =
                    [@ EXCEPT !.pc = "precheck",
                              !.table = IF @ = NoTable THEN df ELSE @,
                              !.mchk = current_model]]
            /\ active_jobs' = mark_job_started(active_jobs)
    /\ UNCHANGED <<inferencerVars, df, emitted, last_prediction,
                   last_prewarm_run_id, logObject, config, sem, queue_metrics,
                   startup_ready_ms, req, out, loader, budget, startup, lastSuccess, log_writes, pure>>

\* The row precheck (inferencer.py:407-426): "skip", "empty" or "go".
Precheck(rows, seq_in, seq_out) ==
    IF seq_in > 0 /\ rows < seq_in + seq_out THEN "insufficient_rows"
    ELSE IF rows = 0 THEN "empty"
    ELSE "go"

\* A skip that returns before the try block was entered.
SkipOutsideTry == "ret"
\* 'return None' inside the try block: the finally block still runs
\* (inferencer.py:420-421, 495-497).
SkipTarget == "finally"

PI_Precheck(c) ==
    /\ call[c].pc = "precheck"
    /\ LET chk == Precheck(call[c].table.rows, input_seq_len, output_seq_len)
           seen == [call[c] EXCEPT !.in = input_seq_len, !.out = output_seq_len]
       IN  call' = [call EXCEPT ![c] =
                IF chk = "go" THEN [seen EXCEPT !.pc = "branch"]
                ELSE [seen EXCEPT !.pc = SkipTarget, !.result = None, !.event = chk]]
    /\ UNCHANGED <<inferencerVars, df, active_jobs, emitted, last_prediction,
                   last_prewarm_run_id, logObject, config, sem, queue_metrics,
                   startup_ready_ms, req, out, loader, budget, startup, lastSuccess, log_writes, pure>>

ModelClasses == {"pytorch", "prophet", "statsforecast"}
\* What the predictor (an external collaborator) may do with a table.
PredictOutcomes == {"ok", "KeyError", "Exception"}

\* Predictor calls of one branch when none fails: the sequence loop
\* 'for step in range(local_inference_length)' calls predict in every
\* iteration (inferencer.py:541-548); the other branches call it once
\* (inferencer.py:721, 788).
PredictCalls(cls, h) == IF cls = "pytorch" THEN h ELSE 1

\* The model branch (inferencer.py:466-475, 499-660, 717-727, 751-793).
PI_Branch(c) ==
    /\ call[c].pc = "branch"
    /\ \E outcome \in PredictOutcomes :
        LET cls == model_class
            pm == current_model
        IN  call' = [call EXCEPT ![c] =
                IF cls \notin ModelClasses
                THEN [@ EXCEPT !.pc = "finally", !.cls = cls,
                               !.result = "Exception", !.event = "unsupported_class"]
                ELSE IF outcome # "ok"
                THEN [@ EXCEPT !.pc = "finally", !.cls = cls, !.m = pm,
                               !.ncalls = 1,
                               !.result = outcome, !.event = "predict_failed"]
                ELSE [@ EXCEPT !.pc = "scale", !.cls = cls, !.m = pm,
                               !.ncalls = PredictCalls(cls, call[c].h),
                               !.pred = [m |-> pm, t |-> call[c].table.id,
                                         h |-> call[c].h]]]
    /\ UNCHANGED <<inferencerVars, df, active_jobs, emitted, last_prediction,
                   last_prewarm_run_id, logObject, config, sem, queue_metrics,
                   startup_ready_ms, req, out, loader, budget, startup, lastSuccess, log_writes, pure>>

\* What the inverse scaling of a branch yields: the raw predictions without
\* a scaler, the inverse-transformed ones when the transform succeeds; a
\* failing transform is inside try/except in the sequence branch
\* (inferencer.py:663-688) and bare in the seasonal and the multi-horizon
\* branch (729-737, 796-804).
InverseOutcome(cls, has_scaler, invOk) ==
    IF ~has_scaler THEN "raw"
    ELSE IF invOk THEN "scaled"
    ELSE IF cls = "pytorch" THEN "raw"
    ELSE "Exception"

\* Inverse scaling (inferencer.py:663-688, 729-743, 796-810): without a
\* scaler the raw predictions go on; a failing inverse transform is caught
\* in the sequence branch only.
PI_Scale(c) ==
    /\ call[c].pc = "scale"
    /\ \E invOk \in (IF current_scaler = None THEN {TRUE} ELSE BOOLEAN) :
        call' = [call EXCEPT ![c] =
            IF InverseOutcome(call[c].cls, current_scaler # None, invOk) # "Exception"
            THEN [@ EXCEPT !.pc = "save", !.sc = current_scaler]
            ELSE [@ EXCEPT !.pc = "finally", !.sc = current_scaler,
                           !.result = "Exception", !.event = "inverse_failed"]]
    /\ UNCHANGED <<inferencerVars, df, active_jobs, emitted, last_prediction,
                   last_prewarm_run_id, logObject, config, sem, queue_metrics,
                   startup_ready_ms, req, out, loader, budget, startup, lastSuccess, log_writes, pure>>

\* prediction_hash: sha256 of the first rows of the prediction table
\* (inferencer.py:933-937).
pred_hash(pred) == [m |-> pred.m, t |-> pred.t, n |-> Min(pred.h, HashRows)]

\* A dedup decision that never finds the key.
NeverDuplicate(run_id, key, keys) == FALSE
\* The dedup decision, taken under _emitted_prediction_lock
\* (inferencer.py:941-956).
IsDuplicate(run_id, key, keys) == run_id # None /\ key \in keys
EmittedAfter(run_id, key, keys) ==
    IF run_id # None THEN keys \cup {key} ELSE keys

\* One more call began the log write under a key.
WriteCounted(writes, key) ==
    IF key \in DOMAIN writes THEN [writes EXCEPT ![key] = @ + 1]
    ELSE writes @@ (key :> 1)

\* _save_and_publish_predictions up to the dedup decision
\* (inferencer.py:838-956).
PI_Save(c) ==
    /\ call[c].pc = "save"
    /\ LET run_id == current_run_id
           key == <<run_id, pred_hash(call[c].pred)>>
       IN  IF INFERENCE_DISABLE_LOG_UPLOAD
           THEN /\ call' = [call EXCEPT ![c] =
                        [@ EXCEPT !.pc = "finally", !.result = "df",
                                  !.event = "log_upload_skipped"]]
                /\ UNCHANGED <<emitted, log_writes>>
           ELSE IF IsDuplicate(run_id, key, emitted)
           THEN /\ call' = [call EXCEPT ![c] =
                        [@ EXCEPT !.pc = "finally", !.result = "df", !.run = run_id,
                                  !.key = key,
                                  !.event = "duplicate_prediction_skip"]]
                /\ UNCHANGED <<emitted, log_writes>>
           ELSE /\ call' = [call EXCEPT ![c] =
                        [@ EXCEPT !.pc = "fetch", !.run = run_id, !.key = key,
                                  !.attempt = 1, !.wrote = TRUE]]
                /\ emitted' = EmittedAfter(run_id, key, emitted)
                /\ log_writes' = WriteCounted(log_writes, key)
    /\ UNCHANGED <<inferencerVars, df, active_jobs, last_prediction,
                   last_prewarm_run_id, logObject, config, sem, queue_metrics,
                   startup_ready_ms, req, out, loader, budget, startup,
                   lastSuccess, pure>>

\* One attempt of the log write, first half: get_file; a failed fetch is
\* taken for an empty object (inferencer.py:980-999).
PI_Fetch(c) ==
    /\ call[c].pc = "fetch"
    /\ \E ok \in SinkOutcomes :
        call' = [call EXCEPT ![c] =
            [@ EXCEPT !.pc = "post", !.fetched = IF ok THEN logObject ELSE <<>>]]
    /\ UNCHANGED <<inferencerVars, df, active_jobs, emitted, last_prediction,
                   last_prewarm_run_id, logObject, config, sem, queue_metrics,
                   startup_ready_ms, req, out, loader, budget, startup, lastSuccess, log_writes, pure>>

\* The line a call appends.
LogLine(c) == [by |-> c, key |-> call[c].key]

\* A loop that tries again after every failure.
RetryWithoutBound(attempt) == "fetch"
\* Second half: post_file of the old body plus the new line; a failure is
\* retried until max_retries attempts were made (inferencer.py:999-1032).
\* The loop has more attempts left after a failed one.
AfterFailedAttempt(attempt) ==
    IF attempt = max_retries THEN "publish" ELSE "fetch"

PI_Post(c) ==
    /\ call[c].pc = "post"
    /\ \E ok \in SinkOutcomes :
        IF ok
        THEN /\ logObject' = Append(call[c].fetched, LogLine(c))
             /\ call' = [call EXCEPT ![c] =
                    [@ EXCEPT !.pc = "publish", !.fetched = <<>>,
                              !.event = "inference_log_write"]]
        ELSE /\ UNCHANGED logObject
             /\ call' = [call EXCEPT ![c] =
                    IF AfterFailedAttempt(call[c].attempt) = "publish"
                    THEN [@ EXCEPT !.pc = "publish", !.fetched = <<>>,
                                   !.event = "log_write_failed"]
                    ELSE [@ EXCEPT !.pc = "fetch", !.fetched = <<>>,
                                   !.attempt = @ + 1]]
    /\ UNCHANGED <<inferencerVars, df, active_jobs, emitted, last_prediction,
                   last_prewarm_run_id, config, sem, queue_metrics,
                   startup_ready_ms, req, out, loader, budget, startup, lastSuccess, log_writes, pure>>

\* The JSONL record (inferencer.py:960-969).
LogRecord(run_id) ==
    [kind |-> "record", status |-> "SUCCESS", cached |-> FALSE, req_id |-> 0,
     run_id |-> run_id, predictions |-> NoPred]

\* What _save_and_publish_predictions leaves in last_prediction_response
\* after the write loop (inferencer.py:1034-1062): in KFP mode the record.
LastAfterPublish(last, record) ==
    IF USE_KAFKA THEN last ELSE set_last_prediction(record)

PI_Publish(c) ==
    /\ call[c].pc = "publish"
    /\ last_prediction' = LastAfterPublish(last_prediction, LogRecord(call[c].run))
    /\ call' = [call EXCEPT ![c] = [@ EXCEPT !.pc = "finally", !.result = "df"]]
    /\ UNCHANGED <<inferencerVars, df, active_jobs, emitted, last_prewarm_run_id,
                   logObject, config, sem, queue_metrics, startup_ready_ms,
                   req, out, loader, budget, startup, lastSuccess, log_writes, pure>>

\* The finally block of perform_inference (inferencer.py:495-497).
PI_Finally(c) ==
    /\ call[c].pc = "finally"
    /\ active_jobs' = mark_job_finished(active_jobs)
    /\ call' = [call EXCEPT ![c] = [@ EXCEPT !.pc = "ret"]]
    /\ UNCHANGED <<inferencerVars, df, emitted, last_prediction,
                   last_prewarm_run_id, logObject, config, sem, queue_metrics,
                   startup_ready_ms, req, out, loader, budget, startup, lastSuccess, log_writes, pure>>

\* ------------------------------------------------------ model loaders
\* One load runs at a time: a load_model of the runtime ("runtime"), a
\* /reload_latest ("manual") or the startup fallback ("startup").
LoaderFinished(ok) ==
    IF loader.by = "startup"
    THEN [loader EXCEPT !.pc = "done", !.ok = ok]
    ELSE InitLoader

\* _fallback_load_latest_model: the search (api_server.py:262-324).  MLflow
\* answers with a run, or with none.
FL_Search ==
    /\ loader.pc = "fl_search"
    /\ \E run \in Runs \cup {None} :
        loader' = IF run = None THEN LoaderFinished(FALSE)
                  ELSE [loader EXCEPT !.pc = "fl_load", !.run = run]
    /\ UNCHANGED <<inferencerVars, df, active_jobs, emitted, last_prediction,
                   last_prewarm_run_id, logObject, config, sem, queue_metrics,
                   startup_ready_ms, req, out, call, budget, startup, lastSuccess, log_writes, pure>>

\* pyfunc.load_model of the candidates; the first that loads is installed
\* with '_inf.current_model = mdl' (api_server.py:326-330).
FL_Load ==
    /\ loader.pc = "fl_load"
    /\ \E ok \in BOOLEAN :
        IF ok
        THEN /\ current_model' = loader.run
             /\ loader' = [loader EXCEPT !.pc = "fl_meta"]
        ELSE /\ UNCHANGED current_model
             /\ loader' = LoaderFinished(FALSE)
    /\ UNCHANGED <<current_scaler, current_run_id, input_seq_len, output_seq_len,
                   model_class, scaler_checked, df, active_jobs, emitted,
                   last_prediction, last_prewarm_run_id, logObject, config,
                   sem, queue_metrics, startup_ready_ms, req, out, call, budget,
                   startup, lastSuccess, log_writes, pure>>

\* '_inf.current_run_id = run_id' and the name, type and config hash
\* (api_server.py:331-334).
FL_Meta ==
    /\ loader.pc = "fl_meta"
    /\ current_run_id' = loader.run
    /\ loader' = [loader EXCEPT !.pc = "fl_enrich"]
    /\ UNCHANGED <<current_model, current_scaler, input_seq_len, output_seq_len,
                   model_class, scaler_checked, df, active_jobs, emitted,
                   last_prediction, last_prewarm_run_id, logObject, config,
                   sem, queue_metrics, startup_ready_ms, req, out, call, budget,
                   startup, lastSuccess, log_writes, pure>>

\* _enrich_loaded_model(inf, run_id, model_type): fills the model class and
\* the sequence lengths from the run's parameters; a failure is logged and
\* the load still counts (api_server.py:335-342).
FL_Enrich ==
    /\ loader.pc = "fl_enrich"
    /\ \E ok \in BOOLEAN :
        IF ok
        THEN /\ model_class' = RunParams(loader.run).cls
             /\ input_seq_len' = RunParams(loader.run).in
             /\ output_seq_len' = RunParams(loader.run).out
        ELSE UNCHANGED <<model_class, input_seq_len, output_seq_len>>
    /\ loader' = LoaderFinished(TRUE)
    /\ UNCHANGED <<current_model, current_scaler, current_run_id, scaler_checked,
                   df, active_jobs, emitted, last_prediction, last_prewarm_run_id,
                   logObject, config, sem, queue_metrics, startup_ready_ms,
                   req, out, call, budget, startup, lastSuccess, log_writes, pure>>

\* POST /reload_latest hands the fallback load to a thread
\* (api_server.py:781-787).
Reload ==
    /\ loader.pc = "idle"
    /\ budget.reloads > 0
    /\ budget' = [budget EXCEPT !.reloads = @ - 1]
    /\ loader' = [InitLoader EXCEPT !.pc = "fl_search", !.by = "manual"]
    /\ UNCHANGED <<inferencerVars, df, active_jobs, emitted, last_prediction,
                   last_prewarm_run_id, logObject, config, sem, queue_metrics,
                   startup_ready_ms, req, out, call, startup, lastSuccess, log_writes, pure>>

\* Inferencer.load_model, called by the runtime: the run search and
\* 'self.current_run_id = run_id' (inferencer.py:138-158).  No run found
\* raises into the outer handler, which changes nothing.
LM_Begin ==
    /\ loader.pc = "idle"
    /\ budget.loads > 0
    /\ budget' = [budget EXCEPT !.loads = @ - 1]
    /\ \E run \in Runs \cup {None} :
        IF run = None
        THEN UNCHANGED <<loader, current_run_id>>
        ELSE /\ current_run_id' = run
             /\ loader' = [InitLoader EXCEPT !.pc = "lm_meta", !.by = "runtime",
                                             !.run = run]
    /\ UNCHANGED <<current_model, current_scaler, input_seq_len, output_seq_len,
                   model_class, scaler_checked, df, active_jobs, emitted,
                   last_prediction, last_prewarm_run_id, logObject, config,
                   sem, queue_metrics, startup_ready_ms, req, out, call, startup,
                   lastSuccess, log_writes, pure>>

\* The model type and class, and for a sequence model the sequence
\* lengths (inferencer.py:160-177).
LM_Meta ==
    /\ loader.pc = "lm_meta"
    /\ model_class' = RunParams(loader.run).cls
    /\ IF RunParams(loader.run).cls = "pytorch"
       THEN /\ input_seq_len' = RunParams(loader.run).in
            /\ output_seq_len' = RunParams(loader.run).out
       ELSE UNCHANGED <<input_seq_len, output_seq_len>>
    /\ loader' = [loader EXCEPT !.pc = "lm_artifact"]
    /\ UNCHANGED <<current_model, current_scaler, current_run_id, scaler_checked,
                   df, active_jobs, emitted, last_prediction, last_prewarm_run_id,
                   logObject, config, sem, queue_metrics, startup_ready_ms,
                   req, out, call, budget, startup, lastSuccess, log_writes, pure>>

\* The candidate artifact paths (inferencer.py:179-213): the first that
\* loads is installed; when none loads the error is raised only if no
\* predictor is held.
LM_Artifact ==
    /\ loader.pc = "lm_artifact"
    /\ \E ok \in BOOLEAN :
        IF ok
        THEN /\ current_model' = loader.run
             /\ loader' = [loader EXCEPT !.pc = "lm_scaler"]
        ELSE /\ UNCHANGED current_model
             /\ loader' = IF current_model = None THEN LoaderFinished(FALSE)
                          ELSE [loader EXCEPT !.pc = "lm_scaler"]
    /\ UNCHANGED <<current_scaler, current_run_id, input_seq_len, output_seq_len,
                   model_class, scaler_checked, df, active_jobs, emitted,
                   last_prediction, last_prewarm_run_id, logObject, config,
                   sem, queue_metrics, startup_ready_ms, req, out, call, budget,
                   startup, lastSuccess, log_writes, pure>>

\* The scaler held after the optional scaler search (inferencer.py:219-291):
\* the search is skipped for a run already inspected; a search that finds
\* and unpickles the run's scaler installs it, any other leaves the field.
ScalerAfterLoad(scaler, run, checked, found) ==
    IF run \in checked THEN scaler
    ELSE IF found /\ RunParams(run).scaler THEN run
    ELSE scaler

LM_Scaler ==
    /\ loader.pc = "lm_scaler"
    /\ \E found \in BOOLEAN :
        current_scaler' = ScalerAfterLoad(current_scaler, loader.run,
                                          scaler_checked, found)
    /\ scaler_checked' = scaler_checked \cup {loader.run}
    /\ loader' = LoaderFinished(TRUE)
    /\ UNCHANGED <<current_model, current_run_id, input_seq_len, output_seq_len,
                   model_class, df, active_jobs, emitted, last_prediction,
                   last_prewarm_run_id, logObject, config, sem, queue_metrics,
                   startup_ready_ms, req, out, call, budget, startup, lastSuccess, log_writes, pure>>

\* Inferencer.set_df: the runtime caches the reference table
\* (inferencer.py:105-108).
SetDf ==
    /\ df = NoTable
    /\ df' = CachedTable
    /\ UNCHANGED <<inferencerVars, active_jobs, emitted, last_prediction,
                   last_prewarm_run_id, logObject, config, sem, queue_metrics,
                   startup_ready_ms, req, out, call, loader, budget, startup,
                   lastSuccess, log_writes, pure>>

\* ------------------------------------------------ startup and prewarm
\* _background_startup assigns _startup_ready_ms without declaring it
\* global or nonlocal, so the name is local to the nested function
\* (api_server.py:1135-1190): local_ready is that local, and the
\* module-level startup_ready_ms is not written.

\* WAIT_FOR_MODEL decides between ready-at-once and the polling loop
\* (api_server.py:1137-1145).
StartupBegin ==
    /\ startup.pc = "start"
    /\ startup' = IF config.WAIT_FOR_MODEL THEN [startup EXCEPT !.pc = "loop"]
                  ELSE [startup EXCEPT !.pc = "done", !.local_ready = TRUE]
    /\ UNCHANGED <<inferencerVars, df, active_jobs, emitted, last_prediction,
                   last_prewarm_run_id, logObject, config, sem, queue_metrics,
                   startup_ready_ms, req, out, call, loader, budget, lastSuccess, log_writes, pure>>

\* One pass of 'while time.time() < deadline': a loaded model ends the
\* wait and goes on to the prewarm, otherwise the task sleeps and comes
\* back to the loop test (api_server.py:1145-1167).
StartupPoll ==
    /\ startup.pc = "loop"
    /\ startup' = IF current_model # None
                  THEN [startup EXCEPT !.pc = "prewarm", !.local_ready = TRUE]
                  ELSE [startup EXCEPT !.pc = "slept"]
    /\ UNCHANGED <<inferencerVars, df, active_jobs, emitted, last_prediction,
                   last_prewarm_run_id, logObject, config, sem, queue_metrics,
                   startup_ready_ms, req, out, call, loader, budget, lastSuccess, log_writes, pure>>

\* The loop test after a sleep: the deadline has not passed.
StartupWake ==
    /\ startup.pc = "slept"
    /\ startup' = [startup EXCEPT !.pc = "loop"]
    /\ UNCHANGED <<inferencerVars, df, active_jobs, emitted, last_prediction,
                   last_prewarm_run_id, logObject, config, sem, queue_metrics,
                   startup_ready_ms, req, out, call, loader, budget, lastSuccess, log_writes, pure>>

\* A routine that falls through to the fallback after a model was seen.
TimeoutAfterReturn == {"loop", "slept", "prewarm", "done"}
\* Where the routine can find the deadline passed: at the loop test, before
\* a pass or after a sleep (api_server.py:1145, 1167).
TimeoutPoints == {"loop", "slept"}

\* The deadline has passed: the fallback load is handed to a thread
\* (api_server.py:1169-1171).
StartupTimeout ==
    /\ startup.pc \in TimeoutPoints
    /\ loader.pc = "idle"
    /\ loader' = [InitLoader EXCEPT !.pc = "fl_search", !.by = "startup"]
    /\ startup' = [startup EXCEPT !.pc = "fallback", !.fallbacks = @ + 1]
    /\ UNCHANGED <<inferencerVars, df, active_jobs, emitted, last_prediction,
                   last_prewarm_run_id, logObject, config, sem, queue_metrics,
                   startup_ready_ms, req, out, call, budget, lastSuccess, log_writes, pure>>

\* The fallback load returned (api_server.py:1172-1190).
StartupAfterFallback ==
    /\ startup.pc = "fallback"
    /\ loader.pc = "done"
    /\ loader' = InitLoader
    /\ startup' = [startup EXCEPT !.pc = IF loader.ok THEN "prewarm" ELSE "done",
                                  !.local_ready = TRUE]
    /\ UNCHANGED <<inferencerVars, df, active_jobs, emitted, last_prediction,
                   last_prewarm_run_id, logObject, config, sem, queue_metrics,
                   startup_ready_ms, req, out, call, budget, lastSuccess, log_writes, pure>>

\* Whether _prewarm_if_needed runs perform_inference (api_server.py:677-699).
PrewarmRuns(enabled) ==
    /\ enabled
    /\ current_model # None
    /\ last_prewarm_run_id # current_run_id
    /\ model_class \in ModelClasses
    /\ df # NoTable
\* Whether it returns before recording the prewarm (api_server.py:677-685).
PrewarmReturnsEarly(enabled) ==
    \/ ~enabled
    \/ current_model = None
    \/ last_prewarm_run_id = current_run_id

\* _prewarm_if_needed: perform_inference(get_df_copy(), 1) goes to a thread
\* without passing the gate (api_server.py:676-699).
Prewarm ==
    /\ startup.pc = "prewarm"
    /\ IF PrewarmRuns(config.PREWARM_ENABLED)
       THEN /\ call' = [call EXCEPT ![PrewarmCall] =
                   [InitCall EXCEPT !.pc = "enter", !.table = df, !.h = 1]]
            /\ startup' = [startup EXCEPT !.pc = "prewarming"]
            /\ UNCHANGED last_prewarm_run_id
       ELSE /\ startup' = [startup EXCEPT !.pc = "done"]
            /\ last_prewarm_run_id' =
                   IF PrewarmReturnsEarly(config.PREWARM_ENABLED)
                   THEN last_prewarm_run_id
                   ELSE current_run_id
            /\ UNCHANGED call
    /\ UNCHANGED <<inferencerVars, df, active_jobs, emitted, last_prediction,
                   logObject, config, sem, queue_metrics, startup_ready_ms,
                   req, out, loader, budget, lastSuccess, log_writes, pure>>

\* The prewarm inference returned or raised (api_server.py:692-702).
PrewarmReturn ==
    /\ startup.pc = "prewarming"
    /\ call[PrewarmCall].pc = "ret"
    /\ last_prewarm_run_id' = current_run_id
    /\ startup' = [startup EXCEPT !.pc = "done"]
    /\ call' = [call EXCEPT ![PrewarmCall] = InitCall]
    /\ UNCHANGED <<inferencerVars, df, active_jobs, emitted, last_prediction,
                   logObject, config, sem, queue_metrics, startup_ready_ms,
                   req, out, loader, budget, lastSuccess, log_writes, pure>>

\* ------------------------------------------------------ specifications
Serve ==
    \E r \in Reqs : Arrive(r) \/ Acquire(r) \/ StartExec(r) \/ ExecReturn(r)
Execute ==
    \E c \in Calls :
        \/ PI_Enter(c) \/ PI_Precheck(c) \/ PI_Branch(c) \/ PI_Scale(c)
        \/ PI_Save(c) \/ PI_Fetch(c) \/ PI_Post(c) \/ PI_Publish(c)
        \/ PI_Finally(c)
LoadModel == LM_Begin \/ LM_Meta \/ LM_Artifact \/ LM_Scaler
FallbackLoad == FL_Search \/ FL_Load \/ FL_Meta \/ FL_Enrich

\* Requests of the scenarios with two clients, and loads of the swap
\* scenario.
PairReqs == 2
SwapLoads == 2

Config(wait, prewarm, cache, flaky, payloads, horizons) ==
    [WAIT_FOR_MODEL |-> wait, PREWARM_ENABLED |-> prewarm, cache |-> cache,
     sink_flaky |-> flaky, payloads |-> payloads, horizons |-> horizons,
     durations |-> {0}]

\* The gate: started with WAIT_FOR_MODEL=0 and a reliable sink, K requests
\* arrive while the runtime loads one model and caches the reference table.
Init ==
    /\ InitBase
    /\ config = Config(FALSE, FALSE, TRUE, FALSE,
                       {NoData, GoodPayload, DupTsPayload}, {"none"})
    /\ budget = [arrivals |-> NumReqs, loads |-> MaxLoads, reloads |-> 0]
Next == Serve \/ Execute \/ LoadModel \/ StartupBegin \/ SetDf
Spec == Init /\ [][Next]_vars

\* The hot swap: two requests run while the runtime loads models one after
\* the other.
InitSwap ==
    /\ InitBase
    /\ config = Config(FALSE, FALSE, FALSE, FALSE,
                       {GoodPayload, ShortPayload}, {"none"})
    /\ budget = [arrivals |-> PairReqs, loads |-> SwapLoads, reloads |-> 0]
NextSwap == Serve \/ Execute \/ LoadModel \/ StartupBegin
SpecSwap == InitSwap /\ [][NextSwap]_vars

\* The log sink: requests with the same table, with or without a horizon
\* override, while the sink may refuse any call.
InitSink ==
    /\ InitBase
    /\ config = Config(FALSE, FALSE, TRUE, TRUE, {GoodPayload},
                       {"none", "query"})
    /\ budget = [arrivals |-> PairReqs, loads |-> MaxLoads, reloads |-> 0]
NextSink == Serve \/ Execute \/ LoadModel \/ StartupBegin
SpecSink == InitSink /\ [][NextSink]_vars

\* Startup with WAIT_FOR_MODEL=1 and ENABLE_PREWARM=1: the task polls for
\* the model the runtime loads and prewarms it while requests arrive.
InitStart ==
    /\ InitBase
    /\ config = Config(TRUE, TRUE, TRUE, FALSE, {GoodPayload}, {"none"})
    /\ budget = [arrivals |-> PairReqs, loads |-> MaxLoads, reloads |-> 0]
NextStart ==
    \/ Serve \/ Execute \/ LoadModel \/ SetDf \/ StartupBegin
    \/ StartupPoll \/ StartupWake \/ Prewarm \/ PrewarmReturn
SpecStart == InitStart /\ [][NextStart]_vars

\* The saturated gate under fair scheduling: K requests with a table while
\* the runtime loads a model.  The event loop resumes every coroutine that
\* can run (the waiter of a released semaphore, the awaiter of a finished
\* thread), and every pool thread runs on.
InitGate ==
    /\ InitBase
    /\ config = Config(FALSE, FALSE, FALSE, FALSE, {GoodPayload}, {"none"})
    /\ budget = [arrivals |-> NumReqs, loads |-> MaxLoads, reloads |-> 0]
NextGate == Serve \/ Execute \/ LoadModel \/ StartupBegin
FairGate ==
    /\ \A r \in Reqs :
        /\ WF_vars(Acquire(r))
        /\ WF_vars(StartExec(r))
        /\ WF_vars(ExecReturn(r))
    /\ \A c \in Calls :
        WF_vars(\/ PI_Enter(c) \/ PI_Precheck(c) \/ PI_Branch(c) \/ PI_Scale(c)
                \/ PI_Save(c) \/ PI_Fetch(c) \/ PI_Post(c) \/ PI_Publish(c)
                \/ PI_Finally(c))
SpecGate == InitGate /\ [][NextGate]_vars /\ FairGate

\* Clients that send well-formed and malformed payloads: two requests, one
\* load, the reference table cached or not.
InitMixed ==
    /\ InitBase
    /\ config = Config(FALSE, FALSE, FALSE, FALSE,
                       {GoodPayload, ShortPayload, DupTsPayload, DupPairPayload,
                        NoColsPayload},
                       {"none"})
    /\ budget = [arrivals |-> PairReqs, loads |-> MaxLoads, reloads |-> 0]
NextMixed == Serve \/ Execute \/ LoadModel \/ StartupBegin \/ SetDf
SpecMixed == InitMixed /\ [][NextMixed]_vars

\* The timings: requests whose preparation, wait for the slot and execution
\* take any whole number of milliseconds up to MaxMs.
MaxMs == 2
InitTimed ==
    /\ InitBase
    /\ config = [Config(FALSE, FALSE, FALSE, FALSE, {GoodPayload, ShortPayload},
                        {"none"}) EXCEPT !.durations = 0..MaxMs]
    /\ budget = [arrivals |-> PairReqs, loads |-> MaxLoads, reloads |-> 0]
NextTimed == Serve \/ Execute \/ LoadModel \/ StartupBegin
SpecTimed == InitTimed /\ [][NextTimed]_vars

\* Startup with WAIT_FOR_MODEL=1 and no clients: the task polls while the
\* runtime may load a model and cache the table, falls back when the
\* deadline passes, and prewarms.
InitBoot ==
    /\ InitBase
    /\ config = Config(TRUE, TRUE, TRUE, FALSE, {GoodPayload}, {"none"})
    /\ budget = [arrivals |-> 0, loads |-> MaxLoads, reloads |-> 0]
NextBoot ==
    \/ StartupBegin \/ StartupPoll \/ StartupWake \/ StartupTimeout
    \/ StartupAfterFallback \/ FallbackLoad \/ LoadModel \/ SetDf
    \/ Prewarm \/ PrewarmReturn \/ Execute
SpecBoot == InitBoot /\ [][NextBoot]_vars

\* ------------------------------------------------ request preparation
\* Bounds of the payloads the preparation is applied to: rows, and the
\* instants their timestamps are drawn from.
MaxStamps == 3
NumInstants == 3
SeqsUpTo(S, n) == UNION {[1..k -> S] : k \in 0..n}
\* idx.nunique() (api_server.py:506, 541)
nunique(ts) == Cardinality({ts[k] : k \in DOMAIN ts})
\* df_tmp.sort_index() (api_server.py:530): rows in ascending order of the
\* index, equal timestamps kept.
sort_index(ts) == SortSeq(ts, LAMBDA a, b : a < b)
\* A payload by its timestamp column ts (in row order) and the properties
\* the chain looks at; rows and uniq are what the code computes from it.
PayloadOf(ts, tscol, tsok, numeric, cols) ==
    [id |-> "S", data |-> TRUE, rows |-> Len(ts), tscol |-> tscol, tsok |-> tsok,
     uniq |-> nunique(ts), numeric |-> numeric, cols |-> cols, ts |-> ts]
\* What _prepare_dataframe_for_inference does with a payload: the detail
\* of the HTTPException(400), or "ok" and the index of the returned table
\* (api_server.py:456-574).
Prepared(p, svc, cached) ==
    LET detail == PrepareDataframe(p, svc, cached)
    IN  [detail |-> detail,
         index |-> IF detail = "ok" THEN sort_index(p.ts) ELSE <<>>]

\* _prepare_dataframe_for_inference applied on its own.
InitPrepare ==
    /\ InitState
    /\ config = Config(FALSE, FALSE, FALSE, FALSE, {}, {})
    /\ budget = [arrivals |-> 0, loads |-> 0, reloads |-> 0]
    /\ \E ts \in SeqsUpTo(1..NumInstants, MaxStamps),
          tscol \in BOOLEAN, tsok \in BOOLEAN, numeric \in BOOLEAN,
          cols \in BOOLEAN, svc \in BOOLEAN, cached \in {NoTable, CachedTable},
          data \in BOOLEAN :
            \* a column without values holds nothing unparseable
            /\ Len(ts) = 0 => tsok /\ numeric
            /\ pure = [done |-> FALSE,
                    arg |-> [p |-> IF data
                                   THEN PayloadOf(ts, tscol, tsok, numeric, cols)
                                   ELSE NoData @@ [ts |-> <<>>],
                             svc |-> svc, cached |-> cached],
                    ret |-> [detail |-> None, index |-> <<>>]]
Prepare ==
    /\ ~pure.done
    /\ pure' = [pure EXCEPT !.done = TRUE,
                            !.ret = Prepared(pure.arg.p, pure.arg.svc,
                                             pure.arg.cached)]
    /\ UNCHANGED <<inferencerVars, df, active_jobs, emitted, last_prediction,
                   last_prewarm_run_id, logObject, config, sem, queue_metrics,
                   startup_ready_ms, req, out, call, loader, budget, startup,
                   lastSuccess, log_writes>>
NextPrepare == Prepare
SpecPrepare == InitPrepare /\ [][NextPrepare]_vars

\* ------------------------------------------------ the prediction frame
\* Bounds of the tables and windows the frame is computed for.
MaxRows == 5
MaxWindow == 2
MaxHorizon == 3
MaxSpacing == 2
\* A table index: timestamps, in minutes, in row order.
UniformIndex(t0, d, n) == [k \in 1..n |-> t0 + (k - 1) * d]
\* data_utils.check_uniform: the spacing of a uniformly spaced index.
check_uniform(idx) == idx[2] - idx[1]
\* data_utils.window_data: the number of sliding windows of seq_in input
\* rows followed by seq_out target rows.
window_count(rows, seq_in, seq_out) == Max(rows - seq_in - seq_out + 1, 0)
\* A start taken at the last row of the first window.
StartAtWindowEnd(rows, seq_in) == SAMPLE_IDX + seq_in - 1
\* adjusted_start_pos, a 0-based row position (inferencer.py:422-438).
AdjustedStartPos(rows, seq_in) ==
    IF SAMPLE_IDX + seq_in >= rows THEN rows - 1 ELSE SAMPLE_IDX + seq_in
\* pd.date_range(start=, periods=, freq=) (inferencer.py:455-461).
date_range(start, periods, freq) == [k \in 1..periods |-> start + (k - 1) * freq]
\* The values 'step' takes in 'for step in range(local_inference_length)':
\* the reassignment 'step += steps_to_use - 1' at the end of the body does
\* not move the range iterator (inferencer.py:541, 655).
BlockStarts(h) == 0..(h - 1)
\* steps_to_use (inferencer.py:575)
StepsToUse(seq_out, h, step) == Min(seq_out, h - step)
\* The output rows the block that starts at step writes: absolute_step =
\* step + i below the horizon (inferencer.py:577-587).
BlockRows(seq_out, h, step) ==
    {step + i : i \in 0..(StepsToUse(seq_out, h, step) - 1)} \cap 0..(h - 1)
\* Predictor calls of the loop when none fails: one per iteration
\* (inferencer.py:546-548).
LoopCalls(seq_out, h) == Cardinality(BlockStarts(h))
\* For each output row, the number of blocks that write it.
RowWrites(seq_out, h) ==
    [row \in 0..(h - 1) |->
        Cardinality({s \in BlockStarts(h) : row \in BlockRows(seq_out, h, s)})]

\* perform_inference on a table with index idx for a sequence model, the
\* predictor succeeding: the result and the index of the returned table
\* (inferencer.py:407-463, 499-520, 661-715).
SequenceForecast(idx, seq_in, seq_out, h) ==
    LET rows == Len(idx)
        chk == Precheck(rows, seq_in, seq_out)
    IN  IF chk # "go"
        THEN [result |-> None, event |-> chk, index |-> <<>>, ncalls |-> 0,
              writes |-> <<>>]
        ELSE IF window_count(rows, seq_in, seq_out) <= SAMPLE_IDX
        THEN [result |-> "Exception", event |-> "IndexError", index |-> <<>>,
              ncalls |-> 0, writes |-> <<>>]
        ELSE [result |-> "df", event |-> "predict_inference_end",
              ncalls |-> LoopCalls(seq_out, h), writes |-> RowWrites(seq_out, h),
              index |-> date_range(idx[AdjustedStartPos(rows, seq_in) + 1], h,
                                   check_uniform(idx))]

\* perform_inference applied on its own to uniformly spaced tables.
InitForecast ==
    /\ InitState
    /\ config = Config(FALSE, FALSE, FALSE, FALSE, {}, {})
    /\ budget = [arrivals |-> 0, loads |-> 0, reloads |-> 0]
    /\ \E t0 \in 0..1, d \in 1..MaxSpacing, n \in 2..MaxRows,
          seq_in \in 1..MaxWindow, seq_out \in 1..MaxWindow, h \in 0..MaxHorizon :
            pure = [done |-> FALSE,
                    arg |-> [idx |-> UniformIndex(t0, d, n), seq_in |-> seq_in,
                             seq_out |-> seq_out, h |-> h],
                    ret |-> [result |-> None, event |-> None, index |-> <<>>,
                             ncalls |-> 0, writes |-> <<>>]]
Forecast ==
    /\ ~pure.done
    /\ pure' = [pure EXCEPT !.done = TRUE,
                            !.ret = SequenceForecast(pure.arg.idx, pure.arg.seq_in,
                                                     pure.arg.seq_out, pure.arg.h)]
    /\ UNCHANGED <<inferencerVars, df, active_jobs, emitted, last_prediction,
                   last_prewarm_run_id, logObject, config, sem, queue_metrics,
                   startup_ready_ms, req, out, call, loader, budget, startup,
                   lastSuccess, log_writes>>
NextForecast == Forecast
SpecForecast == InitForecast /\ [][NextForecast]_vars

\* ------------------------------------------------ the model branches
\* Bound of the sampling periods (minutes) a run's parameters name.
MaxPeriod == 2
\* A predictor call that raises the error of the last strategy.
PredictRaisingLast(oks) ==
    IF oks[1] THEN [tried |-> <<"as_given">>, by |-> "as_given", error |-> None]
    ELSE IF oks[2]
    THEN [tried |-> <<"as_given", "squeeze">>, by |-> "squeeze", error |-> None]
    ELSE IF oks[3]
    THEN [tried |-> <<"as_given", "squeeze", "flatten">>, by |-> "flatten",
          error |-> None]
    ELSE [tried |-> <<"as_given", "squeeze", "flatten">>, by |-> None,
          error |-> "flatten"]
\* One predictor call of the sequence loop with its shape fallbacks; oks
\* tells which of the three shapes the predictor accepts.  The window is
\* (1, seq_len, n_features), so the squeeze applies; the bare 'raise'
\* re-raises the exception of the first attempt (inferencer.py:546-574).
PredictWithFallbacks(oks) ==
    IF oks[1] THEN [tried |-> <<"as_given">>, by |-> "as_given", error |-> None]
    ELSE IF oks[2]
    THEN [tried |-> <<"as_given", "squeeze">>, by |-> "squeeze", error |-> None]
    ELSE IF oks[3]
    THEN [tried |-> <<"as_given", "squeeze", "flatten">>, by |-> "flatten",
          error |-> None]
    ELSE [tried |-> <<"as_given", "squeeze", "flatten">>, by |-> None,
          error |-> "as_given"]
\* The 'h' given to the multi-horizon predictor: the environment's
\* INFERENCE_LENGTH when the run's downsampling is "0" or equals its
\* frequency, else the resampled horizon (inferencer.py:754-783).
StatsSteps(downsampling, frequency, h) ==
    IF downsampling = 0 \/ downsampling = frequency THEN INFERENCE_LENGTH
    ELSE (h * frequency + downsampling - 1) \div downsampling
\* A model branch followed by its inverse scaling
\* (inferencer.py:499-715, 717-749, 751-815): predictor calls made when the
\* first succeeds, the steps asked of a single-call predictor, and what is
\* returned.
BranchResult(a) ==
    LET first == IF a.cls = "pytorch" THEN PredictWithFallbacks(a.oks)
                 ELSE [tried |-> <<"as_given">>,
                       by |-> IF a.oks[1] THEN "as_given" ELSE None,
                       error |-> IF a.oks[1] THEN None ELSE "as_given"]
        inv == InverseOutcome(a.cls, a.has_scaler, a.invOk)
    IN  IF first.by = None
        THEN [result |-> "Exception", values |-> None, first |-> first,
              ncalls |-> Len(first.tried), steps |-> 0]
        ELSE [result |-> IF inv = "Exception" THEN "Exception" ELSE "df",
              values |-> IF inv = "Exception" THEN None ELSE inv,
              first |-> first,
              ncalls |-> IF a.cls = "pytorch" THEN LoopCalls(a.seq_out, a.h) ELSE 1,
              steps |-> IF a.cls = "statsforecast"
                        THEN StatsSteps(a.downsampling, a.frequency, a.h)
                        ELSE a.h]

\* The model branches applied on their own.
InitBranch ==
    /\ InitState
    /\ config = Config(FALSE, FALSE, FALSE, FALSE, {}, {})
    /\ budget = [arrivals |-> 0, loads |-> 0, reloads |-> 0]
    /\ \E cls \in ModelClasses, h \in 1..MaxHorizon, seq_out \in 1..MaxWindow,
          downsampling \in 0..MaxPeriod, frequency \in 1..MaxPeriod,
          has_scaler \in BOOLEAN, invOk \in BOOLEAN, oks \in [1..3 -> BOOLEAN] :
            pure = [done |-> FALSE,
                    arg |-> [cls |-> cls, h |-> h, seq_out |-> seq_out,
                             downsampling |-> downsampling, frequency |-> frequency,
                             has_scaler |-> has_scaler, invOk |-> invOk, oks |-> oks],
                    ret |-> [result |-> None, values |-> None,
                             first |-> [tried |-> <<>>, by |-> None, error |-> None],
                             ncalls |-> 0, steps |-> 0]]
Branch ==
    /\ ~pure.done
    /\ pure' = [pure EXCEPT !.done = TRUE, !.ret = BranchResult(pure.arg)]
    /\ UNCHANGED <<inferencerVars, df, active_jobs, emitted, last_prediction,
                   last_prewarm_run_id, logObject, config, sem, queue_metrics,
                   startup_ready_ms, req, out, call, loader, budget, startup,
                   lastSuccess, log_writes>>
NextBranch == Branch
SpecBranch == InitBranch /\ [][NextBranch]_vars

\* ------------------------------------------------------------ claims
Holding == {r \in Reqs : req[r].pc \in {"held", "exec"}}

\* C1: every request that acquired a gate slot gives it back exactly once
\* and decrements the active metric however it ends: the free slots and
\* the requests between acquisition and their finally block always add up
\* to N, the active metric counts exactly those requests, and with no
\* request holding a slot all N slots are free and active is 0.
C1_SlotReleasedOnEveryExit ==
    /\ sem + Cardinality(Holding) = PREDICT_MAX_CONCURRENCY
    /\ queue_metrics.active = Cardinality(Holding)
    /\ (Holding = {}) =>
            (sem = PREDICT_MAX_CONCURRENCY /\ queue_metrics.active = 0)
\* All K requests acquired a slot and ended, one of them with SUCCESS and
\* one of them with a server error.
C1_Witness ==
    /\ \A r \in Reqs : req[r].pc = "done"
    /\ queue_metrics.wait_samples = NumReqs
    /\ queue_metrics.completed >= 1
    /\ queue_metrics.error_500_total >= 1
    /\ sem = PREDICT_MAX_CONCURRENCY

\* C2: the perform_inference executions in flight at the same time, those
\* of /predict and that of the prewarm, never exceed N.
C2_ExecutionsWithinGate ==
    Cardinality({c \in Calls : InFlight(c)}) <= PREDICT_MAX_CONCURRENCY

\* C3: the active metric stays within 0..N while K > N requests arrive.
C3_ActiveWithinGate ==
    /\ queue_metrics.active >= 0
    /\ queue_metrics.active <= PREDICT_MAX_CONCURRENCY
\* All N slots are held and a request waits at the gate.
C3_Witness ==
    /\ queue_metrics.active = PREDICT_MAX_CONCURRENCY
    /\ \E r \in Reqs : req[r].pc = "gate"

\* C4: what one perform_inference call reads of the model state belongs to
\* one load: the predictor of the readiness check is the predictor that
\* ran, the class and the sequence lengths are those of its run, the run
\* identifier names its run, a scaler read is the scaler of its run, and
\* the predictor that ran is the non-null one the readiness check saw.
C4_CallReadsOneLoad ==
    \A c \in Calls :
        call[c].m # None =>
            /\ call[c].mchk = call[c].m
            /\ call[c].cls = RunParams(call[c].m).cls
            /\ call[c].cls = "pytorch" =>
                    /\ call[c].in = RunParams(call[c].m).in
                    /\ call[c].out = RunParams(call[c].m).out
            /\ call[c].run # None => call[c].run = call[c].m
            /\ call[c].sc # None => call[c].sc = call[c].m

\* C5: a request rejected in preparation, whatever its payload, takes no
\* gate slot and leaves enqueued, active, completed and error_500_total as
\* they were.
C5_RejectedLeavesGate ==
    [][\A r \in Reqs :
        (req[r].pc = "new" /\ out'.req_id = r /\ out'.code = 400) =>
            \A p \in Payloads, hs \in HorizonSources, svc \in BOOLEAN :
                ArriveWith(r, p, hs, svc) =>
                    /\ Preparation(p, svc, df) # "ok"
                    /\ req'[r].pc = "done"
                    /\ sem' = sem
                    /\ queue_metrics'.enqueued = queue_metrics.enqueued
                    /\ queue_metrics'.active = queue_metrics.active
                    /\ queue_metrics'.completed = queue_metrics.completed
                    /\ queue_metrics'.error_500_total =
                            queue_metrics.error_500_total
      ]_vars
\* A request was rejected for duplicate timestamps while another held a
\* slot and one had been counted as enqueued.
C5_Witness ==
    /\ out.code = 400
    /\ out.detail = "DuplicateTimestamps"
    /\ sem < PREDICT_MAX_CONCURRENCY
    /\ queue_metrics.enqueued >= 1

\* C6: a response served with SUCCESS_CACHED carries, apart from status,
\* cached and req_id, the payload of the latest /predict response that
\* returned SUCCESS.
C6_CachedIsLastSuccess ==
    out.detail = "SUCCESS_CACHED" =>
        /\ lastSuccess # NoResp
        /\ Content(out.resp) = Content(lastSuccess)

\* C7: with caching enabled and a stored last response, a request without
\* data and without horizon override returns the cached response without
\* taking a slot: served_cached grows by one, enqueued, wait_samples,
\* active and completed keep their values, and the stored last response is
\* not modified.
C7_CachedBypassesGate ==
    [][\A r \in Reqs :
        (/\ config.cache
         /\ last_prediction # NoResp
         /\ ArriveWith(r, NoData, "none", TRUE)) =>
            /\ out' = Response(r, 200, "SUCCESS_CACHED",
                               CachedResponse(last_prediction, r))
            /\ req'[r].pc = "done"
            /\ sem' = sem
            /\ queue_metrics'.served_cached = queue_metrics.served_cached + 1
            /\ queue_metrics'.enqueued = queue_metrics.enqueued
            /\ queue_metrics'.wait_samples = queue_metrics.wait_samples
            /\ queue_metrics'.active = queue_metrics.active
            /\ queue_metrics'.completed = queue_metrics.completed
            /\ last_prediction' = last_prediction
      ]_vars
\* A cached response was served while all N slots were held.
C7_Witness ==
    /\ out.detail = "SUCCESS_CACHED"
    /\ out.resp.cached
    /\ sem = 0
    /\ queue_metrics.served_cached = 1

\* C8: of the calls that submit the same prediction of the same table by
\* the same model under the same run identifier, one after the other or
\* side by side, exactly one begins a log write and the log holds at most
\* one line of them; every other is skipped as a duplicate.
C8_OneWritePerSubmission ==
    /\ \A k \in DOMAIN log_writes : k[1] # None => log_writes[k] = 1
    /\ \A c \in Calls :
        (call[c].key # <<>> /\ call[c].key[1] # None) =>
            /\ call[c].key \in DOMAIN log_writes
            /\ Cardinality({i \in DOMAIN logObject :
                                logObject[i].key = call[c].key}) <= 1
            /\ ~call[c].wrote => call[c].event = "duplicate_prediction_skip"
            /\ \A d \in Calls \ {c} :
                    call[d].key = call[c].key => ~(call[c].wrote /\ call[d].wrote)
\* Two calls of the same table against predictor and run R1 passed the
\* dedup decision: one wrote its line, the other was skipped.
C8_Witness ==
    \E c, d \in Calls :
        /\ c # d
        /\ call[c].key = call[d].key
        /\ call[c].table = call[d].table
        /\ call[c].m = "R1" /\ call[d].m = "R1" /\ call[c].run = "R1"
        /\ call[c].wrote /\ call[c].event = "inference_log_write"
        /\ call[d].event = "duplicate_prediction_skip"
        /\ Len(logObject) = 1

\* C9: a request whose execution found no model loaded ends with the
\* service-not-ready status 503.
C9_NoModelIsNotReady ==
    [][\A r \in Reqs :
        (/\ req[r].pc = "exec"
         /\ call[r].event = "no_model_loaded"
         /\ req'[r].pc = "done") => out'.code = 503
      ]_vars

C11_WriteFailureKeepsSuccess ==
    [][\A c \in Calls :
        /\ call'[c].attempt <= max_retries
        /\ call'[c].event = "inference_log_write" =>
                call'[c].pc \in {"publish", "finally", "ret"}
        /\ call'[c].event = "log_write_failed" =>
                /\ call'[c].attempt = max_retries
                /\ call'[c].pc \in {"publish", "finally", "ret"}
                /\ call'[c].pc # "publish" => call'[c].result = "df"
        /\ (/\ c \in Reqs
            /\ call[c].event = "log_write_failed"
            /\ req[c].pc = "exec" /\ req'[c].pc = "done") =>
                /\ out' = Response(c, 200, "SUCCESS",
                            ResponsePayload(c, current_run_id, call[c].pred))
                /\ call[c].pred # NoPred
                /\ queue_metrics'.completed = queue_metrics.completed + 1
      ]_vars
\* A request was answered SUCCESS with predictions although the only log
\* write that was begun failed on every attempt: the log is still empty.
C11_Witness ==
    /\ out.code = 200 /\ out.detail = "SUCCESS"
    /\ out.resp.predictions # NoPred
    /\ DOMAIN log_writes # {}
    /\ logObject = <<>>
    /\ \A c \in Calls : call[c].pc = "idle"

\* C12: a saturated gate delays and never rejects: every request waiting
\* at the gate is eventually answered, which it can be only after it
\* acquired a slot, when every execution in flight runs to its end.
C12_WaitingIsServed ==
    \A r \in Reqs : (req[r].pc = "gate") ~> (req[r].pc = "done")
\* Both slots are held by requests inside perform_inference and the third
\* request waits at the gate.
C12_Witness ==
    /\ sem = 0
    /\ \E r \in Reqs :
        /\ req[r].pc = "gate"
        /\ \A q \in Reqs \ {r} : req[q].pc = "exec" /\ InFlight(q)

\* C13: the startup routine attempts the fallback load at most once, only
\* from the loop test of the polling loop and before any pass of the loop
\* saw a model; once a pass saw a model, the routine attempts no fallback.
C13_FallbackAtMostOnce ==
    [][/\ startup'.fallbacks <= 1
       /\ startup'.fallbacks # startup.fallbacks =>
            /\ startup.pc \in {"loop", "slept"}
            /\ startup.fallbacks = 0
            /\ ~startup.local_ready
            /\ loader'.pc = "fl_search" /\ loader'.by = "startup"
       /\ (startup.pc = "loop" /\ startup'.pc = "prewarm") =>
            /\ current_model # None
            /\ startup.fallbacks = 0
       /\ startup.pc \in {"prewarm", "prewarming", "done", "fallback"} =>
            startup'.fallbacks = startup.fallbacks
      ]_vars
\* The deadline passed after a pass that saw no model, the one fallback
\* load installed a predictor, and the routine ended.
C13_Witness ==
    /\ startup.fallbacks = 1
    /\ startup.pc = "done"
    /\ startup.local_ready
    /\ current_model # None
    /\ loader.pc = "idle" /\ budget.loads = MaxLoads

\* C14: for a sequence model with sample offset 0, a uniformly spaced table
\* of at least input_seq_len + output_seq_len rows and a horizon H,
\* perform_inference returns a table of exactly H rows whose timestamps
\* increase by the input spacing and start at the timestamp of the input
\* row at position input_seq_len.
C14_FrameFollowsFirstWindow ==
    LET a == pure.arg
        r == pure.ret
    IN  (pure.done /\ Len(a.idx) >= a.seq_in + a.seq_out) =>
            /\ r.result = "df"
            /\ Len(r.index) = a.h
            /\ a.h >= 1 => r.index[1] = a.idx[a.seq_in + 1]
            /\ \A k \in 1..(a.h - 1) :
                    /\ r.index[k + 1] > r.index[k]
                    /\ r.index[k + 1] - r.index[k] = a.idx[2] - a.idx[1]
\* Five rows two minutes apart, windows of 2 and 1, horizon 3: the frame is
\* the three instants from the third input row on.
C14_Witness ==
    /\ pure.done
    /\ pure.arg = [idx |-> <<0, 2, 4, 6, 8>>, seq_in |-> 2, seq_out |-> 1, h |-> 3]
    /\ pure.ret.result = "df"
    /\ pure.ret.index = <<4, 6, 8>>

\* C15: every table the preparation returns has a strictly increasing
\* timestamp index, and a payload in which a timestamp occurs more than
\* once is rejected.
C15_PreparedIndexIsStrict ==
    LET p == pure.arg.p
        r == pure.ret
    IN  pure.done =>
            /\ r.detail = "ok" =>
                    \A k \in 1..(Len(r.index) - 1) : r.index[k] < r.index[k + 1]
            /\ (p.data /\ p.tscol /\ p.tsok /\ nunique(p.ts) < Len(p.ts)) =>
                    r.detail # "ok"

\* The check a detail belongs to: both row-count details belong to the
\* check that the table has at least one row.
CheckOf(detail) ==
    IF detail \in {"NoRows", "EmptyAfterNormalization"} THEN "rows" ELSE detail
\* The detail the preparation would give when it applied its checks in the
\* order: non-empty data, timestamp column resolved, timestamps parseable,
\* at least one row after normalization, not all timestamps identical, all
\* columns numeric, required feature columns present.
ChainDetail(p, svc, cached) ==
    IF ~p.data THEN "EmptyPayload"
    ELSE IF ~p.tscol THEN "NoTimestampColumn"
    ELSE IF ~p.tsok THEN "InvalidTimestamp"
    ELSE IF Len(p.ts) = 0 THEN "EmptyAfterNormalization"
    ELSE IF nunique(p.ts) = 1 /\ Len(p.ts) > 1 THEN "DuplicateTimestamps"
    ELSE IF ~p.numeric THEN "NonNumericColumns"
    ELSE IF svc /\ cached # NoTable /\ ~p.cols THEN "MissingFeatureColumns"
    ELSE "ok"
\* C18: the preparation applies its checks in the fixed order non-empty
\* data, timestamp column, parseable timestamps, at least one row after
\* normalization, not all timestamps identical, numeric columns, required
\* feature columns; a payload violating several checks is rejected with the
\* error of the earliest one, each check having its own detail.
C18_EarliestCheckRejects ==
    pure.done =>
        CheckOf(pure.ret.detail) =
            CheckOf(ChainDetail(pure.arg.p, pure.arg.svc, pure.arg.cached))

C17_JobCounterFollowsCalls ==
    [][/\ active_jobs' >= 0
       /\ \A c \in Calls :
            /\ (~Running(c) /\ Running(c)') =>
                    /\ call[c].pc = "enter"
                    /\ active_jobs' = active_jobs + 1
            /\ (Running(c) /\ ~Running(c)') =>
                    /\ call[c].pc = "finally"
                    /\ active_jobs' = active_jobs - 1
            /\ (call[c].pc = "enter" /\ call'[c].pc = "ret") =>
                    /\ call'[c].event \in {"no_model_loaded", "no_data"}
                    /\ active_jobs' = active_jobs
       /\ (\A c \in Calls : Running(c) <=> Running(c)')
            => active_jobs' = active_jobs
       /\ (\A c \in Calls : ~Running(c)') => active_jobs' = 0
      ]_vars
\* Two calls ran together; one left on an exception of the predictor and
\* the counter fell to the one call still running.
C17_Witness ==
    /\ active_jobs = 1
    /\ \E c, d \in Reqs :
        /\ call[c].pc = "ret" /\ call[c].result \in {"KeyError", "Exception"}
        /\ Running(d)


\* C19: a request that passes preparation raises enqueued by one, once; a
\* request whose execution succeeds raises completed by one, once, and no
\* other request raises it; when every request so far has succeeded,
\* enqueued and completed both equal their number; and a successful
\* response holds the rows of the prediction table the call returned.
C19_CountedExactlyOnce ==
    [][LET passed == {r \in Reqs : req[r].pc = "new" /\ req'[r].pc = "gate"}
           succeeded == {r \in Reqs : /\ req[r].pc = "exec" /\ req'[r].pc = "done"
                                     /\ call[r].result = "df"}
           finished == {r \in Reqs : req'[r].pc = "done"}
       IN  /\ queue_metrics'.enqueued = queue_metrics.enqueued + Cardinality(passed)
           /\ queue_metrics'.completed = queue_metrics.completed + Cardinality(succeeded)
           /\ \A r \in succeeded :
                /\ out'.req_id = r /\ out'.code = 200 /\ out'.detail = "SUCCESS"
                /\ out'.resp.predictions = call[r].pred
                /\ out'.resp.predictions.h = call[r].h
           /\ \A r \in Reqs :
                (req[r].pc = "exec" /\ req'[r].pc = "done" /\ r \notin succeeded)
                    => out'.code # 200
           /\ ((\A r \in Reqs : req'[r].pc \in {"new", "done"})
                    /\ queue_metrics'.completed = Cardinality(finished))
                => queue_metrics'.enqueued = queue_metrics'.completed
      ]_vars
\* Two requests with payloads, both served with SUCCESS: enqueued and
\* completed are both 2.
C19_Witness ==
    /\ \A r \in Reqs : r <= PairReqs => req[r].pc = "done"
    /\ queue_metrics.enqueued = PairReqs
    /\ queue_metrics.completed = PairReqs
    /\ out.code = 200 /\ out.detail = "SUCCESS"
    /\ out.resp.predictions.h = EffectiveLength("none")

\* C20: log writes only append: a successful write leaves the object with
\* every line it held before, followed by the writer's new line, whatever
\* the interleaving of the writers and also when a fetch failed.
C20_LogOnlyAppends ==
    [][logObject' # logObject =>
            \E c \in Calls :
                /\ call[c].pc = "post"
                /\ logObject' = Append(logObject, LogLine(c))
      ]_vars

\* C21: a load_model that can load the predictor from no candidate path
\* while an earlier predictor is held leaves the model state unchanged:
\* run identifier, model class and sequence lengths still describe the
\* predictor that remains loaded.
C21_FailedLoadKeepsState ==
    [][(/\ loader.pc = "lm_artifact"
        /\ loader'.pc # "lm_artifact"
        /\ current_model # None
        /\ current_model' = current_model) =>
            /\ current_run_id' = current_model'
            /\ model_class' = RunParams(current_model').cls
            /\ RunParams(current_model').cls = "pytorch" =>
                    /\ input_seq_len' = RunParams(current_model').in
                    /\ output_seq_len' = RunParams(current_model').out
      ]_vars

\* C22: after load_model has loaded the predictor of a run, the scaler held
\* is that run's scaler or none; the scaler of a run loaded before is never
\* kept beside the new predictor.
C22_ScalerBelongsToRun ==
    [][(/\ loader.pc = "lm_scaler"
        /\ loader'.pc # "lm_scaler"
        /\ current_model = loader.run) =>
            current_scaler' \in {None, loader.run}
      ]_vars

\* C23: once the startup routine has reached a terminal branch (no-wait,
\* model observed, fallback loaded, wait timeout), the process-level
\* startup-ready marker that /healthz and /metrics report is set.
C23_TerminalBranchMarksReady ==
    startup.local_ready => startup_ready_ms

\* C24: the sequence loop advances one block per predictor call: with
\* output window O and horizon H and no failing call, the predictor is
\* called exactly ceil(H / O) times and each of the H output rows is
\* written by exactly one block.
C24_OneCallPerBlock ==
    LET a == pure.arg
        r == pure.ret
    IN  (pure.done /\ r.result = "df") =>
            /\ r.ncalls = (a.h + a.seq_out - 1) \div a.seq_out
            /\ \A row \in DOMAIN r.writes : r.writes[row] = 1

\* C25: a multi-horizon-stats model with no resampling configured is called
\* exactly once, with a step count equal to the horizon requested for the
\* call, whatever that horizon.
C25_StatsCalledForHorizon ==
    LET a == pure.arg
        r == pure.ret
    IN  (/\ pure.done
         /\ a.cls = "statsforecast"
         /\ (a.downsampling = 0 \/ a.downsampling = a.frequency)
         /\ a.oks[1]) =>
            /\ r.ncalls = 1
            /\ r.steps = a.h

\* C26: in every model class a failing inverse transform does not fail the
\* call, which returns the raw scaled predictions; so does a missing
\* scaler.
C26_InverseFailureReturnsRaw ==
    LET a == pure.arg
        r == pure.ret
    IN  (pure.done /\ r.first.by # None /\ (~a.has_scaler \/ ~a.invOk)) =>
            /\ r.result = "df"
            /\ r.values = "raw"

\* C27: a failing predictor call is retried with the leading dimension
\* removed and then with the window flattened, in that order; the first
\* attempt that succeeds supplies the prediction and nothing is tried after
\* it; when all three fail the error raised is that of the first attempt.
C27_FallbacksInOrder ==
    LET a == pure.arg
        f == pure.ret.first
        order == <<"as_given", "squeeze", "flatten">>
    IN  (pure.done /\ a.cls = "pytorch") =>
            /\ Len(f.tried) \in 1..3
            /\ \A k \in 1..Len(f.tried) : f.tried[k] = order[k]
            /\ \A k \in 1..(Len(f.tried) - 1) : ~a.oks[k]
            /\ f.by # None =>
                    /\ f.by = f.tried[Len(f.tried)]
                    /\ a.oks[Len(f.tried)]
                    /\ f.error = None
                    /\ pure.ret.result # "Exception" \/ a.has_scaler
            /\ f.by = None =>
                    /\ Len(f.tried) = 3
                    /\ \A k \in 1..3 : ~a.oks[k]
                    /\ f.error = "as_given"
                    /\ pure.ret.result = "Exception"
\* The predictor refused the window as given and squeezed and took it
\* flattened: the third strategy supplied the prediction.
C27_Witness ==
    /\ pure.done
    /\ pure.arg.cls = "pytorch"
    /\ pure.arg.oks = <<FALSE, FALSE, TRUE>>
    /\ pure.ret.first.by = "flatten"
    /\ pure.ret.result = "df"

\* C28: a request that fails after it acquired a slot leaves completed
\* unchanged and is answered by kind of failure: inferencer unavailable 503
\* with error_500_total + 1; skipped execution 500 with error_500_total + 1;
\* KeyError from the executor 400 with error_500_total unchanged; any other
\* exception 500 with error_500_total + 1 and last_error_type the
\* exception's class name.
C28_FailureMapping ==
    [][\A r \in Reqs :
        (/\ req[r].pc \in {"held", "exec"}
         /\ req'[r].pc = "done"
         /\ out'.code # 200) =>
            LET qm == queue_metrics
                qn == queue_metrics'
                result == call[r].result
            IN  /\ out'.req_id = r
                /\ qn.completed = qm.completed
                /\ req[r].pc = "held" =>
                        /\ ~req[r].svc
                        /\ out'.code = 503
                        /\ qn.error_500_total = qm.error_500_total + 1
                /\ (req[r].pc = "exec" /\ result = None) =>
                        /\ out'.code = 500
                        /\ qn.error_500_total = qm.error_500_total + 1
                /\ (req[r].pc = "exec" /\ result = "KeyError") =>
                        /\ out'.code = 400
                        /\ qn.error_500_total = qm.error_500_total
                /\ (req[r].pc = "exec" /\ result \notin {None, "KeyError"}) =>
                        /\ out'.code = 500
                        /\ qn.error_500_total = qm.error_500_total + 1
                        /\ qn.last_error_type = result ]_vars
\* One request failed with a server error and was counted, the other was
\* then answered 400 for a KeyError and left the count at one.
C28_Witness ==
    /\ out # NoOut
    /\ out.code = 400
    /\ out.detail = "Missing required columns for inference"
    /\ queue_metrics.error_500_total = 1
    /\ queue_metrics.last_error_type = "MissingColumns"
    /\ queue_metrics.completed = 0
    /\ queue_metrics.wait_samples = 2

\* C29: the dedup set holds a key only if a log record with that key was
\* written to the sink: when the write of a record has failed on every
\* attempt, its key is not in the set, so that a later identical prediction
\* is not skipped as a duplicate.
C29_EmittedOnlyIfWritten ==
    [][\A c \in Calls :
        (/\ call[c].pc = "post"
         /\ call'[c].pc = "publish"
         /\ call'[c].event = "log_write_failed") =>
            call[c].key \notin emitted' ]_vars

\* C30: in every reachable state of the queue metrics completed equals
\* exec_samples, completed <= wait_samples <= enqueued <= prep_samples, and
\* each maximum of a timing is at least its last value.
C30_MetricsConsistent ==
    LET qm == queue_metrics
    IN  /\ qm.completed = qm.exec_samples
        /\ qm.completed <= qm.wait_samples
        /\ qm.wait_samples <= qm.enqueued
        /\ qm.enqueued <= qm.prep_samples
        /\ qm.max_wait_ms >= qm.last_wait_ms
        /\ qm.max_prep_ms >= qm.last_prep_ms
        /\ qm.max_exec_ms >= qm.last_duration_ms
\* Two requests completed, each later timing shorter than the one before
\* it, while nothing is waiting.
C30_Witness ==
    /\ queue_metrics.completed = 2
    /\ queue_metrics.exec_samples = 2
    /\ queue_metrics.prep_samples = 2
    /\ queue_metrics.last_wait_ms < queue_metrics.max_wait_ms
    /\ queue_metrics.last_prep_ms < queue_metrics.max_prep_ms
    /\ queue_metrics.last_duration_ms < queue_metrics.max_exec_ms
=============================================================================
